---- MODULE Spec2Model ----
(***************************************************************************)
(* The job-based REST API of the universal data loader (app/): the job     *)
(* registry of app/services/job_service.py, the API-key gate of            *)
(* app/core/security.py, the routes of app/api/routes/jobs.py and the      *)
(* background tasks of app/services/document_service.py.                   *)
(*                                                                         *)
(* Python dicts are functions with a string domain; a key is present when  *)
(* it is in the DOMAIN.  An Optional value is None (<<>>) or Some(x)       *)
(* (<<x>>).  The server is one event loop: a handler runs to its response, *)
(* the response is sent (SendResponse), and only then the next handler or  *)
(* background step runs.  A background task starts at some point after     *)
(* its response (sending the response is an await point) and is split      *)
(* after its first statement, so requests interleave with it: a superset   *)
(* of the schedules of a single event loop, on which a started task runs   *)
(* to its end because its body holds no await.                             *)
(***************************************************************************)
EXTENDS Integers, Sequences, FiniteSets, TLC

\* ---------------------------------------------------------------- bounds
MaxJobs == 2        \* job ids generated in one run
MaxSources == 2     \* sources of a batch request
MaxClock == 2       \* seconds of wall-clock time that pass in one run
MaxElements == 2    \* elements the partitioning engine returns for one input

\* ---------------------------------------------------------------- values
None == <<>>
Some(x) == <<x>>

\* Python truthiness of an Optional[str]: None and "" are falsy.
TruthyStr(o) == o # None /\ o[1] # ""
\* Python truthiness of an Optional[int]: None and 0 are falsy.
TruthyInt(o) == o # None /\ o[1] # 0

\* dict.update(kw): the keys of kw win.
DictUpdate(d, kw) == kw @@ d

JobIds == 1..MaxJobs
\* datetime.now().isoformat(): only the presence of a timestamp is observed.
Timestamp == "now"

Terminal == {"completed", "failed"}

VARIABLES
  API_SECRET_KEY,    \* security.py: os.getenv("API_SECRET_KEY"), read once at import
  jobs_storage,      \* job_service.py: job id -> job dict
  disk,              \* files under UPLOAD_DIR and OUTPUT_DIR: path -> content
  background_tasks,  \* job id -> the background task scheduled for it
  issued,            \* number of job ids generated so far
  resp,              \* the response being sent, NoResp when none is in flight
  workload,          \* the submissions the clients of this run make
  engine,            \* batch_processor.py: the BatchProcessor of one process_all run
  scan,              \* batch_processor.py: one _process_directory_with_patterns call
  idgen,             \* job_service.py: the clock and the uuid draws behind generate_job_id
  call,              \* one call of a library function: its arguments, then its result
  client             \* universal_loader_connector.py: one submit-and-wait cycle

vars == <<API_SECRET_KEY, jobs_storage, disk, background_tasks, issued, resp, workload,
          engine, scan, idgen, call, client>>
core == <<jobs_storage, disk, background_tasks, issued>>
env == <<API_SECRET_KEY, workload, engine, scan, idgen, call, client>>

\* The library parts are not running while the REST API is exercised, and the other
\* way round.
Idle == [phase |-> "idle"]

\* ---------------------------------------------------------------- job_service.py
\* uuid4 is modelled as never repeating: the n-th id generated is n + 1.
generate_job_id(n) == n + 1

\* Faulty variant: the job is created as already running.
create_job_Processing(js, job_id, job_type, config) ==
  (job_id :> [job_id |-> job_id, job_type |-> job_type, status |-> "processing",
              created_at |-> Timestamp, config |-> config]) @@ js

create_job(js, job_id, job_type, config) ==
  (job_id :> [job_id |-> job_id, job_type |-> job_type, status |-> "pending",
              created_at |-> Timestamp, config |-> config]) @@ js

get_job(js, job_id) == IF job_id \in DOMAIN js THEN Some(js[job_id]) ELSE None

\* Faulty variant: completed_at is stamped for completed only.
update_job_status_NoStampOnFailed(js, job_id, status, kw) ==
  IF job_id \in DOMAIN js
  THEN LET a == DictUpdate(js[job_id], "status" :> status)
           b == DictUpdate(a, kw)
           c == IF status = "completed"
                THEN DictUpdate(b, "completed_at" :> Timestamp)
                ELSE b
       IN [js EXCEPT ![job_id] = c]
  ELSE js

\* Faulty variant: an absent id gets a new record.
update_job_status_Upsert(js, job_id, status, kw) ==
  (job_id :> DictUpdate("status" :> status, kw)) @@ js

update_job_status(js, job_id, status, kw) ==
  IF job_id \in DOMAIN js
  THEN LET a == DictUpdate(js[job_id], "status" :> status)
           b == DictUpdate(a, kw)
           c == IF status \in {"completed", "failed"}
                THEN DictUpdate(b, "completed_at" :> Timestamp)
                ELSE b
       IN [js EXCEPT ![job_id] = c]
  ELSE js

get_result_file_path(job_id) == <<"outputs", job_id>>
UploadPath(job_id) == <<"uploads", job_id>>

Unlink(d, p) == [q \in DOMAIN d \ {p} |-> d[q]]
WriteFile(d, p, content) == (p :> content) @@ d

\* Faulty variant: the return True sits outside the if.
delete_job_AlwaysTrue(js, d, job_id) ==
  IF job_id \in DOMAIN js
  THEN [jobs |-> [j \in DOMAIN js \ {job_id} |-> js[j]],
        disk |-> [q \in DOMAIN d \ {<<"uploads", job_id>>, <<"outputs", job_id>>} |-> d[q]],
        ret |-> TRUE]
  ELSE [jobs |-> js, disk |-> d, ret |-> TRUE]

\* delete_job: the new registry, the new disk and the returned flag.
\* Faulty variant: the files are removed and the record stays.
delete_job_KeepRecord(js, d, job_id) ==
  IF job_id \in DOMAIN js
  THEN [jobs |-> js,
        disk |-> [q \in DOMAIN d \ {get_result_file_path(job_id), UploadPath(job_id)} |-> d[q]],
        ret |-> TRUE]
  ELSE [jobs |-> js, disk |-> d, ret |-> FALSE]

delete_job(js, d, job_id) ==
  IF job_id \in DOMAIN js
  THEN LET job_data == js[job_id]
           d1 == IF "file_path" \in DOMAIN job_data /\ job_data["file_path"] \in DOMAIN d
                 THEN Unlink(d, job_data["file_path"])
                 ELSE d
           d2 == IF get_result_file_path(job_id) \in DOMAIN d1
                 THEN Unlink(d1, get_result_file_path(job_id))
                 ELSE d1
       IN [jobs |-> [j \in DOMAIN js \ {job_id} |-> js[j]], disk |-> d2, ret |-> TRUE]
  ELSE [jobs |-> js, disk |-> d, ret |-> FALSE]

RECURSIVE CountProcessing(_, _)
CountProcessing(js, ids) ==
  IF ids = {} THEN 0
  ELSE LET j == CHOOSE x \in ids : TRUE
       IN (IF js[j]["status"] = "processing" THEN 1 ELSE 0)
          + CountProcessing(js, ids \ {j})

\* Faulty variant: every job that is not terminal counts as active.
get_active_jobs_count_NotTerminal(js) ==
  Cardinality({j \in DOMAIN js : js[j]["status"] \in {"pending", "processing"}})

get_active_jobs_count(js) == CountProcessing(js, DOMAIN js)

\* ---------------------------------------------------------------- security.py
Secrets == {None, Some(""), Some("k1")}
\* What APIKeyHeader(auto_error=False) hands over: None for a missing or empty
\* header, else the header's value.
Headers == {None, Some("k1"), Some("k2")}

\* Faulty variant: the header is checked before the server's secret.
get_api_key_HeaderFirst(secret, api_key_header) ==
  IF ~TruthyStr(api_key_header) THEN [code |-> 403, key |-> None]
  ELSE IF ~TruthyStr(secret) THEN [code |-> 500, key |-> None]
  ELSE IF api_key_header # secret THEN [code |-> 401, key |-> None]
  ELSE [code |-> 200, key |-> api_key_header]

\* Faulty variant: a server without a secret lets every request through.
get_api_key_FailOpen(secret, api_key_header) ==
  IF ~TruthyStr(secret) THEN [code |-> 200, key |-> api_key_header]
  ELSE IF ~TruthyStr(api_key_header) THEN [code |-> 403, key |-> None]
  ELSE IF api_key_header # secret THEN [code |-> 401, key |-> None]
  ELSE [code |-> 200, key |-> api_key_header]

\* get_api_key: the status code it raises, or 200 and the key it returns.
get_api_key(secret, api_key_header) ==
  IF ~TruthyStr(secret) THEN [code |-> 500, key |-> None]
  ELSE IF ~TruthyStr(api_key_header) THEN [code |-> 403, key |-> None]
  ELSE IF api_key_header # secret THEN [code |-> 401, key |-> None]
  ELSE [code |-> 200, key |-> api_key_header]

\* ---------------------------------------------------------------- config.py, document_service.py
OutputFormats == {"json", "text", "elements", "documents"}
ChunkingStrategies == {"basic", "by_title", "by_page", "by_similarity"}

\* Request payloads (the config dict of a file or URL job, the loader_config of a batch).
DefaultCfg == [output_format |-> "documents", enable_chunking |-> FALSE,
               chunking_strategy |-> None, max_chunk_size |-> None]
TextCfg == [DefaultCfg EXCEPT !.output_format = "text"]
ElementsCfg == [DefaultCfg EXCEPT !.output_format = "elements"]
ChunkNoStrategyCfg == [DefaultCfg EXCEPT !.enable_chunking = TRUE]
ChunkFullCfg == [DefaultCfg EXCEPT !.enable_chunking = TRUE,
                                  !.chunking_strategy = Some("basic"),
                                  !.max_chunk_size = Some(500)]
RequestConfigs == {DefaultCfg, TextCfg, ChunkNoStrategyCfg, ChunkFullCfg}

\* ---------------------------------------------------------------- models/requests.py
\* A JSON body of POST /url: the keys the client sent.  A key that is not in the
\* DOMAIN was left out and takes the default of the model.
DocumentsBody == [output_format |-> "documents"]
TextBody == [output_format |-> "text"]
ChunkOnlyBody == [enable_chunking |-> TRUE]
ChunkEmptyStrategyBody == [enable_chunking |-> TRUE, chunking_strategy |-> "", max_chunk_size |-> 500]
ChunkZeroSizeBody == [enable_chunking |-> TRUE, chunking_strategy |-> "basic", max_chunk_size |-> 0]
ChunkFullBody == [enable_chunking |-> TRUE, chunking_strategy |-> "basic", max_chunk_size |-> 500]
UrlBodies ==
  {DocumentsBody, TextBody, ChunkOnlyBody, ChunkEmptyStrategyBody, ChunkZeroSizeBody,
   ChunkFullBody}

Given(body, field) == field \in DOMAIN body

\* ProcessUrlRequest(**body).dict(): Some(dict), or None when validation raises.  A
\* @validator runs only for a field the body holds; a field left out takes its
\* default without being validated.
ProcessUrlRequest(body) ==
  LET enable_chunking == IF Given(body, "enable_chunking") THEN body.enable_chunking ELSE FALSE
      strategy_raises == /\ Given(body, "chunking_strategy")
                         /\ enable_chunking
                         /\ body.chunking_strategy = ""
      size_raises == /\ Given(body, "max_chunk_size")
                     /\ enable_chunking
                     /\ body.max_chunk_size = 0
  IN IF strategy_raises \/ size_raises THEN None
     ELSE Some([output_format |-> IF Given(body, "output_format")
                                  THEN body.output_format ELSE "documents",
                enable_chunking |-> enable_chunking,
                chunking_strategy |-> IF Given(body, "chunking_strategy")
                                      THEN Some(body.chunking_strategy) ELSE None,
                max_chunk_size |-> IF Given(body, "max_chunk_size")
                                   THEN Some(body.max_chunk_size) ELSE None])

\* create_loader_config: Some(LoaderConfig), or None when it raises ValueError.
create_loader_config(config_data) ==
  IF config_data.output_format \notin OutputFormats THEN None
  ELSE IF config_data.enable_chunking
  THEN IF ~TruthyStr(config_data.chunking_strategy) THEN None
       ELSE IF ~TruthyInt(config_data.max_chunk_size) THEN None
       ELSE IF config_data.chunking_strategy[1] \notin ChunkingStrategies THEN None
       ELSE Some([output_format |-> config_data.output_format,
                  chunking_strategy |-> config_data.chunking_strategy,
                  max_chunk_size |-> config_data.max_chunk_size[1]])
  ELSE Some([output_format |-> config_data.output_format,
             chunking_strategy |-> None,
             max_chunk_size |-> 1000])

\* loader._format_output: a DocumentCollection for the documents format, a plain
\* list otherwise; n is the number of items.
format_output(loader_config, n) ==
  [kind |-> IF loader_config.output_format = "documents" THEN "collection" ELSE "list",
   format |-> loader_config.output_format,
   n |-> n]

\* loader.save_output: the content written to the result file.
save_output(loader_config, data) ==
  IF data.kind = "collection"
  THEN IF loader_config.output_format = "documents"
       THEN [shape |-> "documents", n |-> data.n]
       ELSE [shape |-> "text", n |-> data.n]
  ELSE IF loader_config.output_format = "json"
       THEN [shape |-> "dicts", n |-> data.n]
       ELSE [shape |-> "text", n |-> data.n]

\* documents.get_statistics(): only a DocumentCollection has it; Some(document_count)
\* or None when the call raises AttributeError.
get_statistics(data) == IF data.kind = "collection" THEN Some(data.n) ELSE None

UploadContent == [shape |-> "upload", n |-> 0]

\* ---------------------------------------------------------------- responses
\* A response in flight: the request it answers (op, header, job_id as asked or as
\* created), the status code, and the body (status, documents, active_jobs).
Response(op, header, job_id, code, status, documents, active_jobs) ==
  [op |-> op, header |-> header, job_id |-> job_id, code |-> code,
   status |-> status, documents |-> documents, active_jobs |-> active_jobs]

NoResp == Response("none", None, 0, 0, "", None, None)

\* ---------------------------------------------------------------- background tasks
\* What the partitioning engine returns for one source: the number of items, which
\* the code only copies and tests for emptiness.  EngineRaises stands for a raise.
ItemCounts == {0, 1}
EngineRaises == -1

Task(func, job_id, arg, config) ==
  [func |-> func, job_id |-> job_id, arg |-> arg, config |-> config, pc |-> "queued"]

\* A finished task keeps neither arguments nor locals.
Finished(t) ==
  [Task(t.func, t.job_id, None, None) EXCEPT !.pc = "done"]

Failed(js, job_id) == update_job_status(js, job_id, "failed", "error_message" :> "error")

Completed(js, job_id, n) ==
  update_job_status(js, job_id, "completed",
                    [documents_count |-> n, download_url |-> job_id])

\* Faulty variant: the task forgets to mark the job processing.
TaskStart_NoUpdate(id) ==
  /\ resp = NoResp
  /\ id \in DOMAIN background_tasks
  /\ background_tasks[id].pc = "queued"
  /\ background_tasks' = [background_tasks EXCEPT ![id].pc = "started"]
  /\ UNCHANGED <<env, jobs_storage, disk, issued, resp>>

\* process_file / process_url / process_batch, first statement of the try block.
TaskStart(id) ==
  /\ resp = NoResp
  /\ id \in DOMAIN background_tasks
  /\ background_tasks[id].pc = "queued"
  /\ jobs_storage' = update_job_status(jobs_storage, id, "processing", <<>>)
  /\ background_tasks' = [background_tasks EXCEPT ![id].pc = "started"]
  /\ UNCHANGED <<env, disk, issued, resp>>

\* Faulty variant: the uploaded file is left where it is.
TaskCleanup_Keep(t, d) == d

\* The finally block of process_file; process_url has none.
TaskCleanup(t, d) ==
  IF t.func = "process_file" /\ t.arg \in DOMAIN d THEN Unlink(d, t.arg) ELSE d

\* The rest of process_file / process_url: create_loader_config, loader.load_file or
\* loader.load_url (the partitioning engine either raises or returns n items),
\* loader.save_output, documents.get_statistics, the completed update, and the
\* except and finally blocks.
TaskRun(id, engine_ok, n) ==
  /\ resp = NoResp
  /\ id \in DOMAIN background_tasks
  /\ LET t == background_tasks[id]
         lc == create_loader_config(t.config)
         loaded == /\ lc # None
                   /\ (t.func = "process_file" => t.arg \in DOMAIN disk)
                   /\ engine_ok
         documents == format_output(lc[1], n)
         d1 == WriteFile(disk, get_result_file_path(id), save_output(lc[1], documents))
         stats == get_statistics(documents)
     IN /\ t.pc = "started"
        /\ t.func \in {"process_file", "process_url"}
        /\ IF loaded
           THEN /\ jobs_storage' = IF stats # None
                                   THEN Completed(jobs_storage, id, stats[1])
                                   ELSE Failed(jobs_storage, id)
                /\ disk' = TaskCleanup(t, d1)
           ELSE /\ jobs_storage' = Failed(jobs_storage, id)
                /\ disk' = TaskCleanup(t, disk)
        /\ background_tasks' = [background_tasks EXCEPT ![id] = Finished(t)]
  /\ UNCHANGED <<env, issued, resp>>

\* ---------------------------------------------------------------- process_batch
SourceTypes == {"url", "file", "directory", "url_list"}

BatchRequest(n, loader_config, continue_on_error) ==
  [sources |-> [k \in 1..n |-> [type |-> "url", path |-> k]],
   loader_config |-> loader_config,
   continue_on_error |-> continue_on_error]

BatchRequests ==
  {BatchRequest(MaxSources, TextCfg, TRUE), BatchRequest(MaxSources, DefaultCfg, FALSE),
   BatchRequest(MaxSources, ElementsCfg, TRUE)}

\* json.dump(all_documents): the content of a batch result file.
BatchContent(format, n) ==
  IF n = 0 \/ format = "documents" THEN [shape |-> "documents", n |-> n]
  ELSE IF format = "json" THEN [shape |-> "dicts", n |-> n]
  ELSE IF format = "text" THEN [shape |-> "text_dicts", n |-> n]
  ELSE [shape |-> "partial", n |-> 0]

\* The for loop over the sources, from source i on.  outcomes[k] is what the
\* partitioning engine does for source k: EngineRaises, or the number of items it
\* returns.  raised: the inner except re-raised (continue_on_error false).
RECURSIVE BatchLoop(_, _, _, _)
BatchLoop(config, outcomes, i, acc) ==
  IF i > Len(config.sources) THEN acc
  ELSE LET lc == create_loader_config(config.loader_config)
           ok == /\ lc # None
                 /\ config.sources[i].type \in SourceTypes
                 /\ outcomes[i] # EngineRaises
       IN IF ok
          THEN BatchLoop(config, outcomes, i + 1,
                         [acc EXCEPT !.all_documents = @ + outcomes[i],
                                     !.successful_sources = @ + 1])
          ELSE IF config.continue_on_error
          THEN BatchLoop(config, outcomes, i + 1, [acc EXCEPT !.failed_sources = @ + 1])
          ELSE [acc EXCEPT !.failed_sources = @ + 1, !.raised = TRUE]

\* The rest of process_batch: the loop, the result file, the completed update and
\* the outer except.  A list of raw elements makes json.dump raise after the file
\* was opened.
BatchRun(id, outcomes) ==
  /\ resp = NoResp
  /\ id \in DOMAIN background_tasks
  /\ LET t == background_tasks[id]
         r == BatchLoop(t.config, outcomes, 1,
                        [all_documents |-> 0, successful_sources |-> 0,
                         failed_sources |-> 0, raised |-> FALSE])
         content == BatchContent(t.config.loader_config.output_format, r.all_documents)
     IN /\ t.pc = "started"
        /\ t.func = "process_batch"
        /\ IF r.raised
           THEN /\ jobs_storage' = Failed(jobs_storage, id)
                /\ UNCHANGED disk
           ELSE /\ disk' = WriteFile(disk, get_result_file_path(id), content)
                /\ jobs_storage' =
                     IF content.shape = "partial"
                     THEN Failed(jobs_storage, id)
                     ELSE update_job_status(jobs_storage, id, "completed",
                            [documents_count |-> r.all_documents,
                             successful_sources |-> r.successful_sources,
                             failed_sources |-> r.failed_sources,
                             download_url |-> id])
        /\ background_tasks' = [background_tasks EXCEPT ![id] = Finished(t)]
  /\ UNCHANGED <<env, issued, resp>>

\* ---------------------------------------------------------------- routes/jobs.py
Rejected(op, h, code) == Response(op, h, 0, code, "", None, None)

\* A submission handler once the gate has passed and the payload parsed: the job is
\* created; with stored = FALSE the upload could not be written and the handler
\* answers 400, else the task is scheduled and the answer is 202.
Submit(op, h, job_type, func, config, stored) ==
  LET id == generate_job_id(issued)
      js1 == create_job(jobs_storage, id, job_type, config)
      arg == IF job_type = "file" THEN UploadPath(id)
             ELSE IF job_type = "url" THEN <<"url", id>> ELSE None
      js2 == IF job_type = "file"
             THEN [js1 EXCEPT ![id] = DictUpdate(@, "file_path" :> arg)]
             ELSE IF job_type = "url"
             THEN [js1 EXCEPT ![id] = DictUpdate(@, "url" :> arg)]
             ELSE js1
  IN /\ issued < MaxJobs
     /\ issued' = issued + 1
     /\ IF stored
        THEN /\ jobs_storage' = js2
             /\ disk' = IF job_type = "file"
                        THEN WriteFile(disk, arg, UploadContent) ELSE disk
             /\ background_tasks' = (id :> Task(func, id, arg, config)) @@ background_tasks
             /\ resp' = Response(op, h, id, 202, js2[id]["status"], None, None)
        ELSE /\ jobs_storage' = js1
             /\ UNCHANGED <<disk, background_tasks>>
             /\ resp' = Rejected(op, h, 400)

\* POST /file.  config_ok: json.loads(config) succeeds; write_ok: the upload can be
\* written under UPLOAD_DIR.
SubmitFile(h, config_ok, config, write_ok) ==
  /\ resp = NoResp
  /\ workload = "file"
  /\ LET g == get_api_key(API_SECRET_KEY, h)
     IN IF g.code # 200
        THEN resp' = Rejected("POST /file", h, g.code) /\ UNCHANGED core
        ELSE IF ~config_ok
        THEN resp' = Rejected("POST /file", h, 400) /\ UNCHANGED core
        ELSE Submit("POST /file", h, "file", "process_file", config, write_ok)
  /\ UNCHANGED env

\* POST /url.  The gate is a dependency and is solved before the body is validated;
\* a body the request model refuses is answered 422 without entering the handler.
SubmitUrl(h, body) ==
  /\ resp = NoResp
  /\ workload = "url"
  /\ LET g == get_api_key(API_SECRET_KEY, h)
         url_request == ProcessUrlRequest(body)
     IN IF g.code # 200
        THEN resp' = Rejected("POST /url", h, g.code) /\ UNCHANGED core
        ELSE IF url_request = None
        THEN resp' = Rejected("POST /url", h, 422) /\ UNCHANGED core
        ELSE Submit("POST /url", h, "url", "process_url", url_request[1], TRUE)
  /\ UNCHANGED env

\* POST /batch
SubmitBatch(h, request) ==
  /\ resp = NoResp
  /\ workload = "batch"
  /\ LET g == get_api_key(API_SECRET_KEY, h)
     IN IF g.code # 200
        THEN resp' = Rejected("POST /batch", h, g.code) /\ UNCHANGED core
        ELSE Submit("POST /batch", h, "batch", "process_batch", request, TRUE)
  /\ UNCHANGED env

\* DELETE /{job_id}
cleanup_job(h, job_id) ==
  /\ resp = NoResp
  /\ LET g == get_api_key(API_SECRET_KEY, h)
         r == delete_job(jobs_storage, disk, job_id)
     IN IF g.code # 200
        THEN resp' = Rejected("DELETE", h, g.code) /\ UNCHANGED core
        ELSE /\ jobs_storage' = r.jobs
             /\ disk' = r.disk
             /\ resp' = Response("DELETE", h, job_id, IF r.ret THEN 204 ELSE 404,
                                 "", None, None)
             /\ UNCHANGED <<background_tasks, issued>>
  /\ UNCHANGED env

\* JobResult(job_id, documents=result_data): every item needs page_content and
\* metadata, else pydantic raises and the framework answers 500; a text stream is
\* not JSON and json.load raises.
ValidDocuments(content) ==
  content.shape = "documents" \/ (content.shape \in {"dicts", "text_dicts"} /\ content.n = 0)

\* GET /{job_id}/result: the status code and body.
get_job_result(js, d, job_id) ==
  IF get_job(js, job_id) = None
  THEN [code |-> 404, status |-> "", documents |-> None]
  ELSE IF js[job_id]["status"] # "completed"
  THEN [code |-> 202, status |-> js[job_id]["status"], documents |-> None]
  ELSE IF get_result_file_path(job_id) \notin DOMAIN d
  THEN [code |-> 500, status |-> "", documents |-> None]
  ELSE IF ~ValidDocuments(d[get_result_file_path(job_id)])
  THEN [code |-> 500, status |-> "", documents |-> None]
  ELSE [code |-> 200, status |-> "",
        documents |-> Some(d[get_result_file_path(job_id)].n)]

GetJobResult(job_id) ==
  /\ resp = NoResp
  /\ LET r == get_job_result(jobs_storage, disk, job_id)
     IN resp' = Response("GET result", None, job_id, r.code, r.status, r.documents, None)
  /\ UNCHANGED <<env, core>>

\* GET /health
health_check ==
  /\ resp = NoResp
  /\ resp' = Response("GET /health", None, 0, 200, "", None,
                      Some(get_active_jobs_count(jobs_storage)))
  /\ UNCHANGED <<env, core>>

\* ---------------------------------------------------------------- the server
\* A job's handlers and task read and write only that job's record and files, so the
\* runs explored are those whose submissions are all uploads, those whose submissions
\* are all URLs and those whose submissions are all batches.
Workloads == {"file", "url", "batch"}

Init ==
  /\ API_SECRET_KEY \in Secrets
  /\ workload \in Workloads
  /\ jobs_storage = <<>>
  /\ disk = <<>>
  /\ background_tasks = <<>>
  /\ issued = 0
  /\ resp = NoResp
  /\ engine = Idle
  /\ scan = Idle
  /\ idgen = Idle
  /\ call = Idle
  /\ client = Idle

SendResponse ==
  /\ resp # NoResp
  /\ resp' = NoResp
  /\ UNCHANGED <<env, core>>

Next ==
  \/ SendResponse
  \/ \E h \in Headers, config_ok \in BOOLEAN, write_ok \in BOOLEAN :
       SubmitFile(h, config_ok, DefaultCfg, write_ok)
  \/ \E h \in Headers, body \in UrlBodies : SubmitUrl(h, body)
  \/ \E h \in Headers, r \in BatchRequests : SubmitBatch(h, r)
  \/ \E h \in Headers, id \in JobIds : cleanup_job(h, id)
  \/ \E id \in JobIds : GetJobResult(id)
  \/ health_check
  \/ \E id \in JobIds : TaskStart(id)
  \/ \E id \in JobIds, engine_ok \in BOOLEAN, n \in ItemCounts : TaskRun(id, engine_ok, n)
  \/ \E id \in JobIds, outcomes \in [1..MaxSources -> {EngineRaises} \cup ItemCounts] : BatchRun(id, outcomes)

Spec == Init /\ [][Next]_vars

\* The framework sends every response and runs every scheduled background task: a
\* task waits for the response in flight, and the requests that keep arriving do not
\* starve it.
FairSpec ==
  /\ Spec
  /\ WF_vars(SendResponse)
  /\ \A id \in JobIds : SF_vars(TaskStart(id))
  /\ \A id \in JobIds : SF_vars(\E engine_ok \in BOOLEAN, n \in ItemCounts :
                                  TaskRun(id, engine_ok, n))
  /\ \A id \in JobIds : SF_vars(\E outcomes \in [1..MaxSources -> {EngineRaises} \cup ItemCounts] :
                                  BatchRun(id, outcomes))

\* ---------------------------------------------------------------- job_service.py called directly
\* The functions of job_service.py called in any order, as the unit tests do.
Statuses == {"pending", "processing", "completed", "failed"}

SvcInit ==
  /\ API_SECRET_KEY = None
  /\ workload = "file"
  /\ jobs_storage = <<>>
  /\ disk = <<>>
  /\ background_tasks = <<>>
  /\ issued = 0
  /\ resp = NoResp
  /\ engine = Idle
  /\ scan = Idle
  /\ idgen = Idle
  /\ call = Idle
  /\ client = Idle

CallCreateJob(job_type) ==
  /\ resp = NoResp
  /\ issued < MaxJobs
  /\ issued' = issued + 1
  /\ jobs_storage' = create_job(jobs_storage, generate_job_id(issued), job_type, DefaultCfg)
  /\ resp' = Response("create_job", None, generate_job_id(issued), 0, "", None, None)
  /\ UNCHANGED <<env, disk, background_tasks>>

CallUpdateJobStatus(job_id, status) ==
  /\ resp = NoResp
  /\ jobs_storage' = update_job_status(jobs_storage, job_id, status, <<>>)
  /\ UNCHANGED <<env, disk, background_tasks, issued, resp>>

CallDeleteJob(job_id) ==
  /\ resp = NoResp
  /\ LET r == delete_job(jobs_storage, disk, job_id)
     IN /\ jobs_storage' = r.jobs
        /\ disk' = r.disk
        /\ resp' = Response("delete_job", None, job_id, IF r.ret THEN 1 ELSE 0, "", None, None)
  /\ UNCHANGED <<env, background_tasks, issued>>

CallGetActiveJobsCount ==
  /\ resp = NoResp
  /\ resp' = Response("get_active_jobs_count", None, 0, 0, "", None,
                      Some(get_active_jobs_count(jobs_storage)))
  /\ UNCHANGED <<env, core>>

\* The caller takes the returned value.
Return ==
  /\ resp # NoResp
  /\ resp' = NoResp
  /\ UNCHANGED <<env, core>>

SvcNext ==
  \/ \E job_type \in {"file", "url", "batch"} : CallCreateJob(job_type)
  \/ \E id \in JobIds, status \in Statuses : CallUpdateJobStatus(id, status)
  \/ \E id \in JobIds : CallDeleteJob(id)
  \/ CallGetActiveJobsCount
  \/ Return

SvcSpec == SvcInit /\ [][SvcNext]_vars

\* ---------------------------------------------------------------- fnmatch
\* File names and patterns are tuples of characters.  fnmatch.fnmatch(name, pat)
\* with the wildcards * and ?.
RECURSIVE fnmatch(_, _)
fnmatch(name, pat) ==
  IF pat = <<>> THEN name = <<>>
  ELSE IF Head(pat) = "*"
  THEN fnmatch(name, Tail(pat)) \/ (name # <<>> /\ fnmatch(Tail(name), pat))
  ELSE /\ name # <<>>
       /\ (Head(pat) = "?" \/ Head(pat) = Head(name))
       /\ fnmatch(Tail(name), Tail(pat))

\* ---------------------------------------------------------------- batch_processor.py
\* A file below a directory: its name, its depth (0: directly in the directory) and
\* whether loader.load_file returns for it (it exists, its suffix is supported and
\* the partitioning engine does not raise).
DirFile(name, depth, loads) == [name |-> name, depth |-> depth, loads |-> loads]

\* What a single-source conversion hands back: a DocumentCollection or a plain
\* list of n items taken from the given files, or a raise.
Loaded(kind, n, files) == [ok |-> TRUE, kind |-> kind, n |-> n, files |-> files]
Raised == [ok |-> FALSE, kind |-> "none", n |-> 0, files |-> {}]

\* An InputSource with the part of the world it points at: outcome is what the
\* partitioning engine does for a file or URL, exists and files describe a directory.
InputSource(type, path, outcome, exists, files, include_patterns, exclude_patterns, recursive) ==
  [type |-> type, path |-> path, outcome |-> outcome, exists |-> exists, files |-> files,
   include_patterns |-> include_patterns, exclude_patterns |-> exclude_patterns,
   recursive |-> recursive]

InScope(f, recursive) == recursive \/ f.depth = 0

AnyMatch(name, patterns) == \E i \in DOMAIN patterns : fnmatch(name, patterns[i])

\* loader.load_directory: every file in scope is tried, a failing one is skipped.
load_directory(source, output_format) ==
  IF ~source.exists THEN Raised
  ELSE LET loaded == {f \in source.files : InScope(f, source.recursive) /\ f.loads}
       IN Loaded(IF output_format = "documents" THEN "collection" ELSE "list",
                 Cardinality(loaded), loaded)

\* The custom branch of _process_directory_with_patterns: the files whose documents
\* end in all_documents.  The try block holds load_file, doc.add_metadata and
\* documents.to_list(); the last two exist on Document and DocumentCollection only,
\* so for another output format every file is skipped.
PatternFiles(files, include_patterns, exclude_patterns, recursive, output_format) ==
  {f \in files :
     /\ InScope(f, recursive)
     /\ (include_patterns # <<>> => AnyMatch(f.name, include_patterns))
     /\ (exclude_patterns # <<>> => ~AnyMatch(f.name, exclude_patterns))
     /\ f.loads
     /\ output_format = "documents"}

process_directory_with_patterns(source, output_format) ==
  IF source.include_patterns = <<>> /\ source.exclude_patterns = <<>>
  THEN load_directory(source, output_format)
  ELSE LET kept == PatternFiles(source.files, source.include_patterns,
                                source.exclude_patterns, source.recursive, output_format)
       IN Loaded("collection", Cardinality(kept), kept)

\* _process_single_source with add_batch_metadata (the default): merge_metadata
\* exists on Document only, so a non-empty plain list makes it raise.
process_single_source(source, output_format) ==
  LET documents ==
        IF source.type = "directory"
        THEN process_directory_with_patterns(source, output_format)
        ELSE IF source.outcome = EngineRaises THEN Raised
        ELSE Loaded(format_output([output_format |-> output_format], source.outcome).kind,
                    source.outcome, {})
  IN IF documents.ok /\ documents.kind = "list" /\ documents.n > 0 THEN Raised
     ELSE documents

\* The sources the runs are built from.
NamePdfA == <<"a", ".", "p">>
NamePdfB == <<"b", ".", "p">>
NameTxtA == <<"a", ".", "t">>
NamePdfC == <<"c", ".", "p">>
TreeFiles ==
  {DirFile(NamePdfA, 0, TRUE), DirFile(NamePdfB, 1, TRUE), DirFile(NameTxtA, 0, TRUE),
   DirFile(NamePdfC, 0, FALSE)}
FileSource(path, outcome) == InputSource("file", path, outcome, TRUE, {}, <<>>, <<>>, TRUE)
UrlSource(path, outcome) == InputSource("url", path, outcome, TRUE, {}, <<>>, <<>>, TRUE)
DirectorySource(path, files, include_patterns, exclude_patterns) ==
  InputSource("directory", path, 0, TRUE, files, include_patterns, exclude_patterns, TRUE)
\* A source path: where it lies, its stem and its suffix.
UrlRoot == "https://h/"
SourcePath(parent, stem, suffix) == <<parent, stem, suffix>>
SourcePool ==
  {FileSource(SourcePath("x/", "a", ".pdf"), 1), FileSource(SourcePath("x/", "a", ".pdf"), 0),
   FileSource(SourcePath("y/", "a", ".pdf"), 1),
   UrlSource(SourcePath(UrlRoot, "u", ".html"), EngineRaises),
   DirectorySource(SourcePath("x/", "d", ""), TreeFiles, <<<<"*", ".", "p">>>>, <<>>),
   DirectorySource(SourcePath("x/", "e", ""), TreeFiles, <<>>, <<>>),
   DirectorySource(SourcePath("x/", "f", ""), {}, <<>>, <<>>)}

Workers == {1, 2}

BatchConfig(sources, max_workers, continue_on_error, output_format) ==
  [sources |-> sources, max_workers |-> max_workers,
   continue_on_error |-> continue_on_error, output_format |-> output_format]

BatchConfigs ==
  {BatchConfig(sources, w, c, f) :
     sources \in [1..MaxSources -> SourcePool], w \in Workers, c \in BOOLEAN,
     f \in {"documents", "text"}}

\* BatchProcessor.__init__
BatchProcessor(config) ==
  [phase |-> "NOT-STARTED", config |-> config, results |-> <<>>, errors |-> <<>>,
   i |-> 1, futures |-> [k \in DOMAIN config.sources |-> "none"], yielded |-> {},
   step |-> "collect", c |-> 1, order |-> <<>>, output_files |-> <<>>, summary |-> None]

rest == <<API_SECRET_KEY, jobs_storage, disk, background_tasks, issued, resp, workload,
          scan, idgen, call, client>>

Outcome(k) == process_single_source(engine.config.sources[k], engine.config.output_format)
PathOf(k) == engine.config.sources[k].path
NumSources == Len(engine.config.sources)
Sequential == engine.config.max_workers = 1

\* self.results[source.path] = result / self.errors[source.path] = str(e)
Record(e, k) ==
  IF Outcome(k).ok
  THEN [e EXCEPT !.results = (PathOf(k) :> [source |-> k, documents |-> Outcome(k)]) @@ @]
  ELSE [e EXCEPT !.errors = (PathOf(k) :> k) @@ @]

\* process_all up to the dispatch: in parallel mode every source is submitted.
process_all ==
  /\ engine.phase = "NOT-STARTED"
  /\ engine' = [engine EXCEPT !.phase = "RUNNING",
                              !.futures = IF Sequential THEN @
                                          ELSE [k \in DOMAIN @ |-> "pending"]]
  /\ UNCHANGED rest

\* Faulty variant: the loop goes on after a failure although continue_on_error is
\* false.
process_sequential_NoRaise ==
  /\ engine.phase = "RUNNING"
  /\ Sequential
  /\ engine.i <= NumSources
  /\ engine' = [Record(engine, engine.i) EXCEPT !.i = @ + 1, !.order = Append(@, engine.i)]
  /\ UNCHANGED rest

\* One turn of the for loop of _process_sequential.
process_sequential ==
  /\ engine.phase = "RUNNING"
  /\ Sequential
  /\ engine.i <= NumSources
  /\ LET k == engine.i
         e == [Record(engine, k) EXCEPT !.i = k + 1, !.order = Append(@, k)]
     IN engine' = IF ~Outcome(k).ok /\ ~engine.config.continue_on_error
                  THEN [e EXCEPT !.phase = "RAISED"]
                  ELSE e
  /\ UNCHANGED rest

Running == {k \in DOMAIN engine.futures : engine.futures[k] = "running"}
Pending == {k \in DOMAIN engine.futures : engine.futures[k] = "pending"}

\* A free worker thread takes the oldest pending work item.
WorkerStart(k) ==
  /\ engine.phase = "RUNNING"
  /\ k \in Pending
  /\ \A j \in Pending : k <= j
  /\ Cardinality(Running) < engine.config.max_workers
  /\ engine' = [engine EXCEPT !.futures[k] = "running", !.order = Append(@, k)]
  /\ UNCHANGED rest

\* Faulty variant: the worker thread stores its outcome in the maps itself.
WorkerFinish_Records(k) ==
  /\ engine.phase = "RUNNING"
  /\ k \in Running
  /\ engine' = [Record(engine, k) EXCEPT !.futures[k] = IF Outcome(k).ok THEN "ok" ELSE "err"]
  /\ UNCHANGED rest

\* _process_single_source returns or raises in its worker thread.
WorkerFinish(k) ==
  /\ engine.phase = "RUNNING"
  /\ k \in Running
  /\ engine' = [engine EXCEPT !.futures[k] = IF Outcome(k).ok THEN "ok" ELSE "err"]
  /\ UNCHANGED rest

\* One turn of the for loop over as_completed in _process_parallel.
as_completed(k) ==
  /\ engine.phase = "RUNNING"
  /\ ~Sequential
  /\ engine.step = "collect"
  /\ engine.futures[k] \in {"ok", "err"}
  /\ k \notin engine.yielded
  /\ LET e == [Record(engine, k) EXCEPT !.yielded = @ \cup {k}]
     IN engine' = IF ~Outcome(k).ok /\ ~engine.config.continue_on_error
                  THEN [e EXCEPT !.step = "cancel"]
                  ELSE e
  /\ UNCHANGED rest

\* Faulty variant: the loop leaves the pending futures as they are.
cancel_KeepPending ==
  /\ engine.phase = "RUNNING"
  /\ engine.step = "cancel"
  /\ engine.c <= NumSources
  /\ engine' = [engine EXCEPT !.c = @ + 1]
  /\ UNCHANGED rest

\* for f in future_to_source: f.cancel() -- one future per step.
cancel ==
  /\ engine.phase = "RUNNING"
  /\ engine.step = "cancel"
  /\ engine.c <= NumSources
  /\ engine' = [engine EXCEPT !.futures[engine.c] = IF @ = "pending" THEN "cancelled" ELSE @,
                              !.c = @ + 1]
  /\ UNCHANGED rest

\* raise: leaving the with block joins the worker threads, then the error leaves
\* process_all.
shutdown ==
  /\ engine.phase = "RUNNING"
  /\ engine.step = "cancel"
  /\ engine.c > NumSources
  /\ Running = {} /\ Pending = {}
  /\ engine' = [engine EXCEPT !.phase = "RAISED"]
  /\ UNCHANGED rest

RECURSIVE TotalDocuments(_, _)
TotalDocuments(results, paths) ==
  IF paths = {} THEN 0
  ELSE LET p == CHOOSE x \in paths : TRUE
       IN results[p].documents.n + TotalDocuments(results, paths \ {p})

\* _get_output_filename without output_prefix: the default template
\* "{source_name}_{timestamp}" under base_path, the source name being the stem of
\* the path ("url_" and the last segment up to its first dot for a URL) and the
\* timestamp the second in which the file is saved.
get_output_filename(source_path, second) ==
  [source_name |-> IF source_path[1] = UrlRoot THEN <<"url_", source_path[2]>>
                   ELSE <<source_path[2]>>,
   timestamp |-> second]

\* _generate_outputs with separate_by_source: one file per key of results;
\* seconds[p] is the second in which the file of p is saved.
generate_outputs(e, seconds) ==
  [p \in DOMAIN e.results |-> get_output_filename(p, seconds[p])]

\* _generate_summary: Some(summary), or None when get_statistics is called on a
\* plain list and raises AttributeError.
generate_summary(e, output_files) ==
  IF \E p \in DOMAIN e.results : e.results[p].documents.kind # "collection" THEN None
  ELSE Some([total_sources |-> Len(e.config.sources),
             successful_sources |-> Cardinality(DOMAIN e.results),
             failed_sources |-> Cardinality(DOMAIN e.errors),
             total_documents |-> TotalDocuments(e.results, DOMAIN e.results),
             output_files |-> output_files,
             errors |-> e.errors])

\* The end of process_all once the dispatch has returned.
finish ==
  /\ engine.phase = "RUNNING"
  /\ IF Sequential THEN engine.i > NumSources
     ELSE engine.step = "collect" /\ engine.yielded = DOMAIN engine.futures
  /\ \E seconds \in [DOMAIN engine.results -> 0..MaxClock] :
       LET output_files == generate_outputs(engine, seconds)
           summary == generate_summary(engine, output_files)
       IN engine' = [engine EXCEPT !.output_files = output_files,
                                   !.summary = summary,
                                   !.phase = IF summary = None THEN "RAISED" ELSE "DONE"]
  /\ UNCHANGED rest

EngineInit ==
  /\ API_SECRET_KEY = None
  /\ workload = "batch"
  /\ jobs_storage = <<>>
  /\ disk = <<>>
  /\ background_tasks = <<>>
  /\ issued = 0
  /\ resp = NoResp
  /\ scan = Idle
  /\ idgen = Idle
  /\ call = Idle
  /\ client = Idle
  /\ \E config \in BatchConfigs : engine = BatchProcessor(config)

EngineNext ==
  \/ process_all
  \/ process_sequential
  \/ \E k \in 1..MaxSources : WorkerStart(k)
  \/ \E k \in 1..MaxSources : WorkerFinish(k)
  \/ \E k \in 1..MaxSources : as_completed(k)
  \/ cancel
  \/ shutdown
  \/ finish

EngineSpec == EngineInit /\ [][EngineNext]_vars

\* The caller calls process_all, the threads run and the main thread goes on.
FairEngineSpec == EngineSpec /\ WF_vars(EngineNext)

\* ---------------------------------------------------------------- one directory source
\* A single directory source taken through _process_single_source.
ScanFiles ==
  {DirFile(NamePdfA, 0, TRUE), DirFile(NamePdfB, 1, TRUE), DirFile(NameTxtA, 0, TRUE),
   DirFile(NameTxtA, 1, TRUE), DirFile(NamePdfC, 0, FALSE)}
PatternLists ==
  {<<>>, <<<<"*", ".", "p">>>>, <<<<"a", ".", "?">>>>, <<<<"b", "*">>, <<"*", "t">>>>}

ScanInit ==
  /\ API_SECRET_KEY = None
  /\ workload = "batch"
  /\ jobs_storage = <<>>
  /\ disk = <<>>
  /\ background_tasks = <<>>
  /\ issued = 0
  /\ resp = NoResp
  /\ engine = Idle
  /\ idgen = Idle
  /\ call = Idle
  /\ client = Idle
  /\ \E files \in SUBSET ScanFiles, include_patterns \in PatternLists,
        exclude_patterns \in PatternLists, recursive \in BOOLEAN,
        output_format \in {"documents", "text"} :
        scan = [phase |-> "ready",
                source |-> InputSource("directory", SourcePath("x/", "d", ""), 0, TRUE, files, include_patterns,
                                       exclude_patterns, recursive),
                output_format |-> output_format,
                documents |-> Raised]

ScanDirectory ==
  /\ scan.phase = "ready"
  /\ scan' = [scan EXCEPT !.phase = "done",
                          !.documents = process_single_source(scan.source, scan.output_format)]
  /\ UNCHANGED <<core, resp, API_SECRET_KEY, workload, engine, idgen, call, client>>

ScanNext == ScanDirectory

ScanSpec == ScanInit /\ [][ScanNext]_vars

\* ---------------------------------------------------------------- job ids
\* generate_job_id as the code computes it: "job_", the first eight hex digits of a
\* random UUID, "_", the wall clock in whole seconds.  (The REST model above names
\* the jobs 1, 2, ... instead.)
HexDigits == {"0", "1", "2", "3", "4", "5", "6", "7", "8", "9", "a", "b", "c", "d", "e", "f"}
HexDraws ==
  {<<"0", "0", "0", "0", "0", "0", "0", "0">>, <<"3", "f", "a", "9", "0", "c", "7", "e">>,
   <<"f", "f", "f", "f", "f", "f", "f", "f">>}
format_job_id(hex, seconds) == [prefix |-> "job_", hex |-> hex, sep |-> "_", digits |-> seconds]

IdInit ==
  /\ API_SECRET_KEY = None
  /\ workload = "url"
  /\ jobs_storage = <<>>
  /\ disk = <<>>
  /\ background_tasks = <<>>
  /\ issued = 0
  /\ resp = NoResp
  /\ engine = Idle
  /\ scan = Idle
  /\ idgen = [clock |-> 0, ids |-> <<>>]
  /\ call = Idle
  /\ client = Idle

\* A second of wall-clock time passes.
Tick ==
  /\ idgen.clock < MaxClock
  /\ idgen' = [idgen EXCEPT !.clock = @ + 1]
  /\ UNCHANGED <<core, resp, API_SECRET_KEY, workload, engine, scan, call, client>>

\* create_job with the id generate_job_id returns for the drawn UUID.
IdCreateJob(hex, job_type) ==
  /\ Len(idgen.ids) < MaxJobs
  /\ LET job_id == format_job_id(hex, idgen.clock)
     IN /\ jobs_storage' = create_job(jobs_storage, job_id, job_type, DefaultCfg)
        /\ idgen' = [idgen EXCEPT !.ids = Append(@, job_id)]
  /\ UNCHANGED <<disk, background_tasks, issued, resp, API_SECRET_KEY, workload, engine, scan, call, client>>

IdNext ==
  \/ Tick
  \/ \E hex \in HexDraws, job_type \in {"file", "url", "batch"} : IdCreateJob(hex, job_type)

IdSpec == IdInit /\ [][IdNext]_vars

\* ---------------------------------------------------------------- entry points of a batch run
MinWorkers == 1
MaxWorkers == 10
DefaultWorkers == 1
UrlsBatchWorkers == 3
DirectoriesBatchWorkers == 2

\* BatchConfig.validate_max_workers: Some(v), or None for ValueError.
validate_max_workers(v) == IF v < MinWorkers \/ v > MaxWorkers THEN None ELSE Some(v)

EntryPoints ==
  {"BatchConfig", "process_urls_batch", "process_directories_batch", "cli --urls-file",
   "cli --sources-file"}

\* The max_workers of the config handed to BatchProcessor by each entry point, None
\* when no processor is made.  given: the caller's max_workers, None when left out.
\* The helper functions build a config with the default and then assign the
\* attribute, which runs no validator.
max_workers_in_force(entry, given) ==
  IF entry = "BatchConfig"
  THEN IF given = None THEN Some(DefaultWorkers) ELSE validate_max_workers(given[1])
  ELSE IF entry = "process_urls_batch"
  THEN IF given = None THEN Some(UrlsBatchWorkers) ELSE given
  ELSE IF entry = "process_directories_batch"
  THEN IF given = None THEN Some(DirectoriesBatchWorkers) ELSE given
  ELSE IF entry = "cli --urls-file" THEN Some(UrlsBatchWorkers)
  ELSE Some(DirectoriesBatchWorkers)

\* process_all dispatches the sources unless ThreadPoolExecutor refuses the count.
dispatches(max_workers) == max_workers >= 1

EntryInit ==
  /\ API_SECRET_KEY = None
  /\ workload = "batch"
  /\ jobs_storage = <<>>
  /\ disk = <<>>
  /\ background_tasks = <<>>
  /\ issued = 0
  /\ resp = NoResp
  /\ engine = Idle
  /\ scan = Idle
  /\ idgen = Idle
  /\ client = Idle
  /\ \E entry \in EntryPoints, given \in {None} \cup {Some(v) : v \in 0..(MaxWorkers + 1)} :
        call = [phase |-> "ready", entry |-> entry, given |-> given,
                max_workers |-> None, dispatched |-> FALSE]

StartRun ==
  /\ call.phase = "ready"
  /\ LET w == max_workers_in_force(call.entry, call.given)
     IN call' = [call EXCEPT !.phase = "done",
                             !.max_workers = w,
                             !.dispatched = w # None /\ dispatches(w[1])]
  /\ UNCHANGED <<core, resp, API_SECRET_KEY, workload, engine, scan, idgen, client>>

EntryNext == StartRun

EntrySpec == EntryInit /\ [][EntryNext]_vars

\* ---------------------------------------------------------------- loader.py
\* One load_file / load_url call.  An element is the length of its text (no
\* surrounding blanks); the separator the chunker and the combiner put between two
\* texts is two characters long.
TextLengths == {1, 3, 5, 9}
ChunkSizes == {4}
SeparatorLength == 2

\* _filter_by_length
filter_by_length(elements, min_text_length) ==
  SelectSeq(elements, LAMBDA e : e >= min_text_length)

\* The chunker splits a text longer than max_characters into windows of
\* max_characters and a remainder.
RECURSIVE split_text(_, _)
split_text(len, max_characters) ==
  IF len <= max_characters THEN <<len>>
  ELSE <<max_characters>> \o split_text(len - max_characters, max_characters)

\* _apply_chunking: chunk_elements / chunk_by_title fill a chunk with consecutive
\* texts up to max_characters; a text that is longer is split.  chunk is the length
\* of the chunk being filled, 0 when it is empty.
RECURSIVE apply_chunking(_, _, _)
apply_chunking(elements, max_characters, chunk) ==
  LET closed == IF chunk > 0 THEN <<chunk>> ELSE <<>>
  IN IF elements = <<>> THEN closed
     ELSE LET e == Head(elements)
          IN IF e > max_characters
             THEN closed \o split_text(e, max_characters)
                         \o apply_chunking(Tail(elements), max_characters, 0)
             ELSE IF chunk = 0 THEN apply_chunking(Tail(elements), max_characters, e)
             ELSE IF chunk + SeparatorLength + e <= max_characters
             THEN apply_chunking(Tail(elements), max_characters, chunk + SeparatorLength + e)
             ELSE closed \o apply_chunking(Tail(elements), max_characters, e)

RECURSIVE JoinedLength(_)
JoinedLength(texts) ==
  IF texts = <<>> THEN 0
  ELSE IF Len(texts) = 1 THEN texts[1]
  ELSE texts[1] + SeparatorLength + JoinedLength(Tail(texts))

\* _format_output: the text lengths of the items handed back.  Documents without
\* chunking are one combined document of the texts that are long enough
\* (_create_combined_documents); documents with chunking are one document per chunk
\* that is long enough (_create_chunked_documents); the other formats keep every
\* item.
format_output_texts(elements, output_format, chunking, min_text_length) ==
  IF output_format = "documents"
  THEN IF chunking
       THEN filter_by_length(elements, min_text_length)
       ELSE LET kept == filter_by_length(elements, min_text_length)
            IN IF kept = <<>> THEN <<>> ELSE <<JoinedLength(kept)>>
  ELSE elements

\* load_file / load_url after the partitioning: filter, chunk, format.
\* max_chunk_size is None when no chunking strategy is configured.
load(elements, min_text_length, max_chunk_size, output_format) ==
  LET filtered == IF min_text_length > 0 THEN filter_by_length(elements, min_text_length)
                  ELSE elements
      chunked == IF max_chunk_size # None THEN apply_chunking(filtered, max_chunk_size[1], 0)
                 ELSE filtered
  IN format_output_texts(chunked, output_format, max_chunk_size # None, min_text_length)

LoadInit ==
  /\ API_SECRET_KEY = None
  /\ workload = "file"
  /\ jobs_storage = <<>>
  /\ disk = <<>>
  /\ background_tasks = <<>>
  /\ issued = 0
  /\ resp = NoResp
  /\ engine = Idle
  /\ scan = Idle
  /\ idgen = Idle
  /\ client = Idle
  /\ \E n \in 0..MaxElements, min_text_length \in {0, 3},
        max_chunk_size \in {None} \cup {Some(c) : c \in ChunkSizes},
        output_format \in OutputFormats :
        \E elements \in [1..n -> TextLengths] :
          call = [phase |-> "ready", elements |-> elements,
                  min_text_length |-> min_text_length, max_chunk_size |-> max_chunk_size,
                  output_format |-> output_format, output |-> <<>>]

Load ==
  /\ call.phase = "ready"
  /\ call' = [call EXCEPT !.phase = "done",
                          !.output = load(call.elements, call.min_text_length,
                                          call.max_chunk_size, call.output_format)]
  /\ UNCHANGED <<core, resp, API_SECRET_KEY, workload, engine, scan, idgen, client>>

LoadNext == Load

LoadSpec == LoadInit /\ [][LoadNext]_vars

\* ---------------------------------------------------------------- cli.py
\* Single-source mode: the LoaderConfig one command line resolves to.  A config is
\* its output_format, min_text_length and include_metadata; a command line is the
\* flags as typed, None for a flag that was not typed.
Presets ==
  [default  |-> [output_format |-> "json", min_text_length |-> 10, include_metadata |-> TRUE],
   rag      |-> [output_format |-> "json", min_text_length |-> 50, include_metadata |-> TRUE],
   training |-> [output_format |-> "text", min_text_length |-> 100, include_metadata |-> FALSE]]

\* What a --config file can hold.
FileConfigs ==
  {[output_format |-> "elements", min_text_length |-> 0, include_metadata |-> FALSE],
   [output_format |-> "documents", min_text_length |-> 20, include_metadata |-> TRUE]}

CommandLines ==
  [config : {None} \cup {Some(c) : c \in FileConfigs},
   preset : {None} \cup {Some(n) : n \in DOMAIN Presets},
   format : {None} \cup {Some(f) : f \in OutputFormats},
   min_length : {None} \cup {Some(n) : n \in {0, 5}},
   include_metadata : BOOLEAN,
   no_metadata : BOOLEAN]

\* setup_parser + parse_args: --format has the default "documents", --include-metadata
\* is store_true with default True, the other flags default to None / False.
parse_args(argv) ==
  [config |-> argv.config,
   preset |-> argv.preset,
   format |-> IF argv.format = None THEN Some("documents") ELSE argv.format,
   min_length |-> argv.min_length,
   include_metadata |-> TRUE,
   no_metadata |-> argv.no_metadata]

create_config_from_args(args) ==
  LET config == IF args.config # None THEN args.config[1]
                ELSE IF args.preset = Some("rag") THEN Presets.rag
                ELSE IF args.preset = Some("training") THEN Presets.training
                ELSE Presets.default
      with_format == IF args.format # None
                     THEN [config EXCEPT !.output_format = args.format[1]]
                     ELSE config
      with_length == IF args.min_length # None /\ args.min_length[1] # 0
                     THEN [with_format EXCEPT !.min_text_length = args.min_length[1]]
                     ELSE with_format
  IN IF args.no_metadata THEN [with_length EXCEPT !.include_metadata = FALSE]
     ELSE with_length

CliInit ==
  /\ API_SECRET_KEY = None
  /\ workload = "file"
  /\ jobs_storage = <<>>
  /\ disk = <<>>
  /\ background_tasks = <<>>
  /\ issued = 0
  /\ resp = NoResp
  /\ engine = Idle
  /\ scan = Idle
  /\ idgen = Idle
  /\ client = Idle
  /\ \E argv \in CommandLines : call = [phase |-> "ready", argv |-> argv, config |-> None]

main ==
  /\ call.phase = "ready"
  /\ call' = [call EXCEPT !.phase = "done",
                          !.config = Some(create_config_from_args(parse_args(call.argv)))]
  /\ UNCHANGED <<core, resp, API_SECRET_KEY, workload, engine, scan, idgen, client>>

CliNext == main

CliSpec == CliInit /\ [][CliNext]_vars

\* ---------------------------------------------------------------- client
\* universal_loader_connector.py / client_example.py: _wait_and_download for one
\* submitted job.  clock is time.time() - start_time in seconds, job the status
\* the server holds, observed the status of the last answered poll, sent the
\* kinds of request issued so far.
DefaultTimeout == 300
PollSeconds == 2
RequestSeconds == 0..1

ClientInit ==
  /\ API_SECRET_KEY = None
  /\ workload = "file"
  /\ jobs_storage = <<>>
  /\ disk = <<>>
  /\ background_tasks = <<>>
  /\ issued = 0
  /\ resp = NoResp
  /\ engine = Idle
  /\ scan = Idle
  /\ idgen = Idle
  /\ call = Idle
  /\ \E job \in Statuses :
       client = [phase |-> "loop", clock |-> 0, job |-> job, observed |-> None,
                 sent |-> {}, downloaded |-> FALSE, outcome |-> None]

ClientFrame == UNCHANGED <<core, resp, API_SECRET_KEY, workload, engine, scan, idgen, call>>

Raise(c, error) == [c EXCEPT !.phase = "ended", !.outcome = Some(error)]

\* while time.time() - start_time < timeout: ... raise TimeoutError
LoopTest ==
  /\ client.phase = "loop"
  /\ client' = IF client.clock < DefaultTimeout
               THEN [client EXCEPT !.phase = "status"]
               ELSE Raise(client, "TimeoutError")
  /\ ClientFrame

\* GET /jobs/{job_id}, raise_for_status, and the branch on the status.
GetStatus ==
  /\ client.phase = "status"
  /\ \E seconds \in RequestSeconds, answered \in BOOLEAN :
       LET c == [client EXCEPT !.clock = @ + seconds, !.sent = @ \cup {"status"}]
       IN client' =
            IF ~answered THEN Raise(c, "HTTPError")
            ELSE LET o == [c EXCEPT !.observed = Some(c.job)]
                 IN IF c.job = "completed" THEN [o EXCEPT !.phase = "download"]
                    ELSE IF c.job = "failed" THEN Raise(o, "JobFailed")
                    ELSE [o EXCEPT !.phase = "sleep"]
  /\ ClientFrame

\* Faulty variant: the pause between two polls takes no time.
sleep_NoTime ==
  /\ client.phase = "sleep"
  /\ client' = [client EXCEPT !.phase = "loop"]
  /\ ClientFrame

\* time.sleep(2); continue
sleep ==
  /\ client.phase = "sleep"
  /\ client' = [client EXCEPT !.phase = "loop", !.clock = @ + PollSeconds]
  /\ ClientFrame

\* GET /download/{job_id}, raise_for_status
download_result ==
  /\ client.phase = "download"
  /\ \E answered \in BOOLEAN :
       LET c == [client EXCEPT !.sent = @ \cup {"download"}]
       IN client' = IF answered THEN [c EXCEPT !.phase = "cleanup", !.downloaded = TRUE]
                    ELSE Raise(c, "HTTPError")
  /\ ClientFrame

\* try: DELETE /jobs/{job_id} except: pass; return result.  Nothing depends on
\* whether the delete went through.
ClientCleanup ==
  /\ client.phase = "cleanup"
  /\ client' = [client EXCEPT !.phase = "ended", !.sent = @ \cup {"delete"},
                              !.outcome = Some("result")]
  /\ ClientFrame

\* The server's background task moves the job on while the client waits.
ServerStep ==
  /\ client.phase \notin {"idle", "ended"}
  /\ \/ client.job = "pending" /\ client' = [client EXCEPT !.job = "processing"]
     \/ client.job = "processing" /\ \E s \in {"completed", "failed"} :
                                        client' = [client EXCEPT !.job = s]
  /\ ClientFrame

ClientStep == LoopTest \/ GetStatus \/ sleep \/ download_result \/ ClientCleanup

ClientNext == ClientStep \/ ServerStep

ClientSpec == ClientInit /\ [][ClientNext]_vars

\* The client's thread keeps running: none of its steps waits for anything but the
\* answer to a request, and every request is answered or fails.
FairClientSpec == ClientSpec /\ WF_vars(ClientStep)

\* ---------------------------------------------------------------- properties
MutatingOps == {"POST /file", "POST /url", "POST /batch", "DELETE"}
SubmitOps == {"POST /file", "POST /url", "POST /batch"}
StatusOf(id) == jobs_storage[id]["status"]
Deleted == {id \in 1..issued : id \notin DOMAIN jobs_storage}

\* C1: a job enters the registry as pending and its status only moves
\* pending -> processing -> completed or failed; it never moves backward, never
\* goes from one terminal status to the other and never leaves a terminal status.
Forward(old, new) ==
  \/ new = old
  \/ old = "pending" /\ new = "processing"
  \/ old = "processing" /\ new \in Terminal

C1_StatusForwardOnly ==
  [][/\ \A id \in DOMAIN jobs_storage \cap DOMAIN jobs_storage' :
          Forward(jobs_storage[id]["status"], jobs_storage'[id]["status"])
     /\ \A id \in DOMAIN jobs_storage' \ DOMAIN jobs_storage :
          jobs_storage'[id]["status"] = "pending"]_vars

C1_Witness ==
  \E a, b \in DOMAIN jobs_storage : StatusOf(a) = "completed" /\ StatusOf(b) = "failed"

\* C2: every job in the registry is eventually completed, failed or deleted; none
\* stays pending or processing forever.
C2_EveryJobTerminates ==
  \A id \in JobIds :
    (id \in DOMAIN jobs_storage)
      ~> (id \notin DOMAIN jobs_storage \/ StatusOf(id) \in Terminal)

\* The part of C2 that the code keeps: a job whose background task was scheduled is
\* eventually terminal or deleted.
ScheduledJobsTerminate ==
  \A id \in JobIds :
    (id \in DOMAIN background_tasks)
      ~> (id \notin DOMAIN jobs_storage \/ StatusOf(id) \in Terminal)

\* C3: a job record carries completed_at exactly when its status is completed or
\* failed.
C3_CompletedAtIffTerminal ==
  \A id \in DOMAIN jobs_storage :
    ("completed_at" \in DOMAIN jobs_storage[id]) <=> (StatusOf(id) \in Terminal)

C3_Witness ==
  /\ \E id \in DOMAIN jobs_storage :
       StatusOf(id) = "failed" /\ "completed_at" \in DOMAIN jobs_storage[id]
  /\ \E id \in DOMAIN jobs_storage :
       StatusOf(id) = "processing" /\ "completed_at" \notin DOMAIN jobs_storage[id]

\* C4: when a submission endpoint answers 202, the response reports pending and
\* get_job returns, under the id of the response, a pending job of the endpoint's
\* type holding the config its task was scheduled with; the task has not started.
JobTypeOf(op) ==
  IF op = "POST /file" THEN "file" ELSE IF op = "POST /url" THEN "url" ELSE "batch"

C4_SubmissionReportsPending ==
  (resp.op \in SubmitOps /\ resp.code = 202) =>
    /\ resp.status = "pending"
    /\ get_job(jobs_storage, resp.job_id) # None
    /\ LET job == get_job(jobs_storage, resp.job_id)[1]
       IN /\ job["job_id"] = resp.job_id
          /\ job["status"] = "pending"
          /\ job["job_type"] = JobTypeOf(resp.op)
          /\ resp.job_id \in DOMAIN background_tasks
          /\ background_tasks[resp.job_id].pc = "queued"
          /\ job["config"] = background_tasks[resp.job_id].config

C4_Witness ==
  /\ resp.op = "POST /url" /\ resp.code = 202
  /\ \E id \in DOMAIN jobs_storage : StatusOf(id) = "processing"

\* C5: get_active_jobs_count returns the number of jobs in the registry whose status
\* is processing.
C5_ActiveJobsCount ==
  resp.op = "get_active_jobs_count" =>
    resp.active_jobs =
      Some(Cardinality({id \in DOMAIN jobs_storage : StatusOf(id) = "processing"}))

C5_Witness ==
  /\ resp.op = "get_active_jobs_count"
  /\ resp.active_jobs = Some(1)
  /\ \E id \in DOMAIN jobs_storage : StatusOf(id) \in {"pending", "completed", "failed"}

\* C6: deleting an id that is not in the registry answers not found and changes
\* neither the registry nor the disk; deleting an id that is in the registry answers
\* success and removes that job and no other, and get_job of it then returns no
\* value.
C6_DeleteJob ==
  [][/\ (resp = NoResp /\ resp'.op = "DELETE" /\ resp'.code \in {204, 404}) =>
          LET id == resp'.job_id
          IN IF id \in DOMAIN jobs_storage
             THEN /\ resp'.code = 204
                  /\ DOMAIN jobs_storage' = DOMAIN jobs_storage \ {id}
                  /\ \A j \in DOMAIN jobs_storage' : jobs_storage'[j] = jobs_storage[j]
                  /\ get_job(jobs_storage', id) = None
             ELSE /\ resp'.code = 404
                  /\ jobs_storage' = jobs_storage
                  /\ disk' = disk]_vars

C6_Witness ==
  /\ resp.op = "DELETE" /\ resp.code = 204
  /\ jobs_storage # <<>>
  /\ resp.job_id \notin DOMAIN jobs_storage

\* C7: once a job is deleted, neither its uploaded file nor its result file exists,
\* in that state and in every later one.
C7_DeletedJobLeavesNoFile ==
  \A id \in Deleted :
    UploadPath(id) \notin DOMAIN disk /\ get_result_file_path(id) \notin DOMAIN disk

\* C8: the answer of the gate on a mutating endpoint: 500 when the server has no
\* secret, else 403 when the header is missing, else 401 when the header differs
\* from the secret, else the gate returns the key and the request reaches the
\* handler.
C8_GateOrder ==
  resp.op \in MutatingOps =>
    IF ~TruthyStr(API_SECRET_KEY) THEN resp.code = 500
    ELSE IF resp.header = None THEN resp.code = 403
    ELSE IF resp.header # API_SECRET_KEY THEN resp.code = 401
    ELSE /\ resp.code \in {202, 204, 400, 404, 422}
         /\ get_api_key(API_SECRET_KEY, resp.header).key = resp.header

C8_Witness ==
  /\ resp.op = "POST /batch" /\ resp.code = 401
  /\ resp.header = Some("k2")

\* C9: a mutating request that does not carry the server's secret changes neither
\* the registry nor the disk and schedules no background task.
Authorized(header) == TruthyStr(API_SECRET_KEY) /\ header = API_SECRET_KEY

C9_RejectedChangesNothing ==
  [][(resp = NoResp /\ resp'.op \in MutatingOps /\ ~Authorized(resp'.header)) =>
       UNCHANGED core]_vars

C9_Witness ==
  /\ resp.op = "DELETE" /\ resp.code = 401
  /\ resp.job_id = 0
  /\ jobs_storage # <<>>
  /\ disk # <<>>

\* C10: GET /{id}/result answers 404 for an unknown id, 202 with the status for a
\* job that is not completed, 200 with the documents of the result file for a
\* completed job whose result file exists, and 500 for a completed job whose result
\* file is missing.
C10_ResultByState ==
  resp.op = "GET result" =>
    LET id == resp.job_id
    IN IF id \notin DOMAIN jobs_storage THEN resp.code = 404
       ELSE IF StatusOf(id) # "completed"
       THEN resp.code = 202 /\ resp.status = StatusOf(id)
       ELSE IF get_result_file_path(id) \in DOMAIN disk
       THEN /\ resp.code = 200
            /\ resp.documents = Some(disk[get_result_file_path(id)].n)
       ELSE resp.code = 500

\* C11: a URL or file request with enable_chunking and without a chunking_strategy
\* or without a max_chunk_size is refused when the request is validated: no job is
\* ever created for it.
C11_ChunkingCheckedAtRequest ==
  \A id \in DOMAIN jobs_storage :
    LET job == jobs_storage[id]
    IN (job["job_type"] \in {"url", "file"} /\ job["config"].enable_chunking) =>
         /\ TruthyStr(job["config"].chunking_strategy)
         /\ TruthyInt(job["config"].max_chunk_size)

SucceededSources == {k \in DOMAIN engine.config.sources : Outcome(k).ok}
FailedSources == {k \in DOMAIN engine.config.sources : ~Outcome(k).ok}
DistinctPaths == \A j, k \in DOMAIN engine.config.sources : PathOf(j) = PathOf(k) => j = k

\* C12: in a finished batch run with continue_on_error the summary counts the
\* sources that succeeded and the sources that failed, the two counts add up to
\* total_sources, and the path of every failing source is a key of errors and of
\* no output file.
C12_SummaryCounts ==
  (engine.phase = "DONE" /\ engine.config.continue_on_error) =>
    LET summary == engine.summary[1]
    IN /\ summary.total_sources = NumSources
       /\ summary.successful_sources = Cardinality(SucceededSources)
       /\ summary.failed_sources = Cardinality(FailedSources)
       /\ summary.successful_sources + summary.failed_sources = summary.total_sources
       /\ \A k \in FailedSources :
            PathOf(k) \in DOMAIN summary.errors /\ PathOf(k) \notin DOMAIN summary.output_files

\* The same for runs whose sources have pairwise distinct paths.
SummaryCountsDistinctPaths == DistinctPaths => C12_SummaryCounts

\* C13: a run with continue_on_error goes from NOT-STARTED through RUNNING to DONE,
\* whatever sources fail, in sequential and in parallel mode.
C13_DoneAlwaysReached ==
  (engine.phase = "NOT-STARTED" /\ engine.config.continue_on_error)
    ~> (engine.phase = "DONE" /\ engine.summary # None)

\* The same for runs whose loader output format is "documents".
DocumentsRunsReachDone ==
  (engine.phase = "NOT-STARTED" /\ engine.config.continue_on_error
     /\ engine.config.output_format = "documents")
    ~> (engine.phase = "DONE" /\ engine.summary # None)

\* With continue_on_error no source is left out once the dispatch is over.
SiblingsProcessed ==
  (engine.config.continue_on_error /\ engine.phase \in {"DONE", "RAISED"}) =>
    \A k \in DOMAIN engine.config.sources : \E j \in DOMAIN engine.order : engine.order[j] = k

\* C14: in sequential mode without continue_on_error the sources are processed one
\* at a time in configuration order, every processed source but the last one
\* succeeded, and once a source has failed the run has ended with the exception:
\* no later source is processed, no output file is written, no summary is made.
C14_SequentialAbort ==
  (Sequential /\ ~engine.config.continue_on_error) =>
    LET n == Len(engine.order)
    IN /\ \A j \in 1..n : engine.order[j] = j
       /\ \A j \in 1..n : j < n => Outcome(j).ok
       /\ (n > 0 /\ ~Outcome(n).ok) =>
            /\ engine.phase = "RAISED"
            /\ engine.summary = None
            /\ DOMAIN engine.output_files = {}
            /\ PathOf(n) \in DOMAIN engine.errors

C14_Witness ==
  /\ Sequential /\ ~engine.config.continue_on_error
  /\ engine.phase = "RAISED"
  /\ engine.order = <<1>>
  /\ ~Outcome(1).ok
  /\ NumSources > 1

Started(k) == \E j \in DOMAIN engine.order : engine.order[j] = k
FailOfParallel == ~Sequential /\ ~engine.config.continue_on_error

\* C15: in parallel mode without continue_on_error, once a failed task has been
\* observed the cancel loop cancels every task that has not started when the loop
\* reaches it, and a cancelled task is never processed; tasks that run on may
\* finish, but nothing more is recorded in results or errors; no summary is made
\* and process_all ends with the exception.
C15_ParallelAbort ==
  /\ [](FailOfParallel =>
          /\ \A k \in DOMAIN engine.futures :
               /\ engine.futures[k] = "cancelled" => ~Started(k)
               /\ (engine.step = "cancel" /\ k < engine.c /\ ~Started(k)) =>
                    engine.futures[k] = "cancelled"
          /\ (\E k \in engine.yielded : ~Outcome(k).ok) =>
               /\ engine.step = "cancel"
               /\ engine.phase # "DONE"
               /\ engine.summary = None
               /\ DOMAIN engine.output_files = {})
  /\ [][(FailOfParallel /\ engine.step = "cancel") =>
          /\ engine.results' = engine.results
          /\ engine.errors' = engine.errors]_vars
  /\ ((FailOfParallel /\ engine.step = "cancel") ~> (engine.phase = "RAISED"))

C15_Witness ==
  /\ FailOfParallel
  /\ engine.phase = "RAISED"
  /\ \E k \in DOMAIN engine.futures : engine.futures[k] = "cancelled"

\* A task that was running when the failure was observed has finished and its
\* result is in no dict.
UnrecordedResult ==
  /\ FailOfParallel
  /\ engine.phase = "RAISED"
  /\ \E k \in DOMAIN engine.futures :
       engine.futures[k] = "ok" /\ PathOf(k) \notin DOMAIN engine.results

HasPatterns(source) == source.include_patterns # <<>> \/ source.exclude_patterns # <<>>

\* The files the filter is meant to keep: in scope, named by an include pattern
\* (any name when there is none), named by no exclude pattern, and loadable.
Wanted(source) ==
  {f \in source.files :
     /\ source.recursive \/ f.depth = 0
     /\ source.include_patterns = <<>>
          \/ \E i \in DOMAIN source.include_patterns : fnmatch(f.name, source.include_patterns[i])
     /\ \A i \in DOMAIN source.exclude_patterns : ~fnmatch(f.name, source.exclude_patterns[i])
     /\ f.loads}

\* C16: for a directory source with include or exclude patterns the files whose
\* documents are in the result (each document names its file in source_file) are
\* exactly the files in scope whose name matches an include pattern, matches no
\* exclude pattern and that load.
C16_PatternFilter ==
  (scan.phase = "done" /\ HasPatterns(scan.source)) =>
    /\ scan.documents.ok
    /\ scan.documents.files = Wanted(scan.source)

\* The same for the "documents" output format.
PatternFilterDocuments == scan.output_format = "documents" => C16_PatternFilter

HasBadFile(source) ==
  source.type = "directory" /\ \E f \in source.files : InScope(f, source.recursive) /\ ~f.loads

\* Source k has been taken through _process_single_source and its outcome has
\* reached the main thread.
Settled(k) == IF Sequential THEN k < engine.i ELSE k \in engine.yielded

\* C17: a directory source holding a file that fails to load is not failed by it,
\* with or without patterns and whatever continue_on_error says: the bad file is
\* skipped, the other files are loaded, the source is in results and not in
\* errors, and the run is not aborted at it.
C17_BadFileSkipped ==
  \A k \in DOMAIN engine.config.sources :
    LET source == engine.config.sources[k]
    IN HasBadFile(source) =>
         /\ engine.futures[k] # "err"
         /\ PathOf(k) \notin DOMAIN engine.errors
         /\ Settled(k) =>
              /\ PathOf(k) \in DOMAIN engine.results
              /\ engine.results[PathOf(k)].documents.files = Wanted(source)
              /\ ~(Sequential /\ engine.phase = "RAISED" /\ engine.i = k + 1
                     /\ DOMAIN engine.output_files = {})

\* The same for the "documents" output format.
BadFileSkippedDocuments == engine.config.output_format = "documents" => C17_BadFileSkipped

\* A directory source with a bad file has been recorded as successful in a run
\* without continue_on_error.
BadFileSkippedReached ==
  /\ ~engine.config.continue_on_error
  /\ \E k \in DOMAIN engine.config.sources :
       /\ HasBadFile(engine.config.sources[k]) /\ Settled(k)
       /\ engine.results[PathOf(k)].documents.files # {}

FileTaskDone(id) ==
  /\ id \in DOMAIN background_tasks
  /\ background_tasks[id].func = "process_file"
  /\ background_tasks[id].pc = "done"

\* C18: once the file-processing task of a job has finished, the job's uploaded
\* file is gone, whether the job ended completed or failed and whether or not it
\* was deleted in the meantime.
C18_UploadRemoved ==
  \A id \in JobIds : FileTaskDone(id) => UploadPath(id) \notin DOMAIN disk

C18_Witness ==
  \E id, other \in JobIds :
    /\ FileTaskDone(id) /\ id \in DOMAIN jobs_storage /\ jobs_storage[id]["status"] = "completed"
    /\ FileTaskDone(other) /\ other \notin DOMAIN jobs_storage

EngineOutcomes == [1..MaxSources -> {EngineRaises} \cup ItemCounts]

\* C19: when the batch task of a job that is still registered runs, then with
\* continue_on_error the job ends completed, every failing source is counted and
\* successful_sources + failed_sources is the number of sources of the request;
\* without continue_on_error a failing source leaves the job failed and no result
\* file is written.
C19_BatchPath ==
  [][\A id \in JobIds, outcomes \in EngineOutcomes :
       (BatchRun(id, outcomes) /\ id \in DOMAIN jobs_storage) =>
         LET request == background_tasks[id].config
             failing == {k \in DOMAIN request.sources : outcomes[k] = EngineRaises}
             job == jobs_storage'[id]
         IN IF request.continue_on_error
            THEN /\ job["status"] = "completed"
                 /\ job["failed_sources"] = Cardinality(failing)
                 /\ job["successful_sources"] + job["failed_sources"] = Len(request.sources)
            ELSE failing # {} => (job["status"] = "failed" /\ disk' = disk)]_vars

\* The same for requests whose output format is not "elements".
BatchPathSerializable ==
  [][\A id \in JobIds, outcomes \in EngineOutcomes :
       (BatchRun(id, outcomes) /\ id \in DOMAIN jobs_storage
          /\ background_tasks[id].config.loader_config.output_format # "elements") =>
         LET request == background_tasks[id].config
             failing == {k \in DOMAIN request.sources : outcomes[k] = EngineRaises}
             job == jobs_storage'[id]
         IN IF request.continue_on_error
            THEN /\ job["status"] = "completed"
                 /\ job["failed_sources"] = Cardinality(failing)
                 /\ job["successful_sources"] + job["failed_sources"] = Len(request.sources)
            ELSE failing # {} => (job["status"] = "failed" /\ disk' = disk)]_vars

WellShaped(job_id) ==
  /\ job_id.prefix = "job_" /\ job_id.sep = "_"
  /\ Len(job_id.hex) = 8 /\ \A i \in 1..8 : job_id.hex[i] \in HexDigits
  /\ job_id.digits \in Nat

\* C20: the job ids generated in one process are pairwise distinct, so every
\* create_job adds a record and overwrites none; each id is job_<8 hex>_<digits>.
C20_IdsDistinct ==
  /\ \A i, j \in DOMAIN idgen.ids : idgen.ids[i] = idgen.ids[j] => i = j
  /\ Cardinality(DOMAIN jobs_storage) = Len(idgen.ids)
  /\ \A i \in DOMAIN idgen.ids : WellShaped(idgen.ids[i])

\* The shape alone.
IdsWellShaped == \A i \in DOMAIN idgen.ids : WellShaped(idgen.ids[i])

SingleTaskDone(id) ==
  /\ id \in DOMAIN background_tasks
  /\ background_tasks[id].func \in {"process_file", "process_url"}
  /\ background_tasks[id].pc = "done"

\* C25: a file or URL job whose task has finished and whose result file was saved
\* is completed and carries a document count, whatever the output format; it is
\* failed only when no result file was saved.
C25_SavedMeansCompleted ==
  \A id \in DOMAIN jobs_storage :
    (SingleTaskDone(id) /\ get_result_file_path(id) \in DOMAIN disk) =>
      /\ StatusOf(id) = "completed"
      /\ "documents_count" \in DOMAIN jobs_storage[id]

\* The same for jobs whose output format is "documents".
SavedMeansCompletedDocuments ==
  \A id \in DOMAIN jobs_storage :
    (SingleTaskDone(id) /\ get_result_file_path(id) \in DOMAIN disk
       /\ jobs_storage[id]["config"].output_format = "documents") =>
      /\ StatusOf(id) = "completed"
      /\ "documents_count" \in DOMAIN jobs_storage[id]

\* C26: a job in the registry with status completed has its result file on disk,
\* and the result endpoint never answers 500 for want of the file.
C26_CompletedHasResultFile ==
  /\ \A id \in DOMAIN jobs_storage :
       StatusOf(id) = "completed" => get_result_file_path(id) \in DOMAIN disk
  /\ (resp.op = "GET result" /\ resp.code = 500) =>
       get_result_file_path(resp.job_id) \in DOMAIN disk

C26_Witness ==
  /\ \E id \in DOMAIN jobs_storage :
       StatusOf(id) = "completed" /\ get_result_file_path(id) \in DOMAIN disk
  /\ \E id \in Deleted :
       /\ id \in DOMAIN background_tasks /\ background_tasks[id].pc = "done"
       /\ get_result_file_path(id) \notin DOMAIN disk

\* C27: a submission answered 400 leaves the registry, the scheduled tasks and
\* the disk as they were.
C27_ErrorLeavesNoTrace ==
  [][(resp = NoResp /\ resp'.op \in SubmitOps /\ resp'.code = 400) =>
       UNCHANGED <<jobs_storage, background_tasks, disk>>]_vars

\* The part of it that concerns tasks and files.
ErrorSchedulesNothing ==
  [][(resp = NoResp /\ resp'.op \in SubmitOps /\ resp'.code = 400) =>
       UNCHANGED <<background_tasks, disk>>]_vars

\* C28: a deleted job never comes back: a step of the task of a deleted job leaves
\* the whole registry as it is, a deleted id stays absent, and a lookup of it finds
\* nothing.
C28_DeletedStaysDeleted ==
  [][\A id \in Deleted :
       /\ id \notin DOMAIN jobs_storage'
       /\ (id \in DOMAIN background_tasks /\ background_tasks'[id] # background_tasks[id]) =>
            jobs_storage' = jobs_storage
       /\ (resp'.op = "GET result" /\ resp'.job_id = id) => resp'.code = 404]_vars

C28_Witness ==
  \E id \in Deleted :
    /\ id \in DOMAIN background_tasks /\ background_tasks[id].pc = "done"
    /\ resp.op = "GET result" /\ resp.job_id = id
    /\ jobs_storage # <<>>

\* A step of a worker thread: a future starts running or finishes.
WorkerStep ==
  \E k \in DOMAIN engine.futures :
    /\ engine.futures'[k] # engine.futures[k]
    /\ engine.futures'[k] \in {"running", "ok", "err"}

\* C24: in parallel mode results and errors change only in a step of the
\* coordinating thread that collects one finished task, never in a step of a
\* worker thread, and each collected outcome is in the maps afterwards.
C24_SingleWriter ==
  [][(engine.phase = "RUNNING" /\ ~Sequential) =>
       /\ WorkerStep => (engine.results' = engine.results /\ engine.errors' = engine.errors)
       /\ (engine.results' # engine.results \/ engine.errors' # engine.errors) =>
            \E k \in DOMAIN engine.futures :
              /\ engine.yielded' = engine.yielded \cup {k} /\ k \notin engine.yielded
              /\ engine.futures[k] \in {"ok", "err"}
              /\ engine.futures' = engine.futures
              /\ PathOf(k) \in DOMAIN (IF Outcome(k).ok THEN engine.results' ELSE engine.errors')]_vars

C24_Witness ==
  /\ engine.phase = "RUNNING" /\ ~Sequential
  /\ DOMAIN engine.results # {}
  /\ Running # {}

\* C30: whichever entry point starts a run, the max_workers in force when the
\* sources are dispatched lies in 1..10.
C30_WorkersInRange ==
  (call.phase = "done" /\ call.dispatched) =>
    (call.max_workers[1] >= 1 /\ call.max_workers[1] <= 10)

\* The same for runs started from a constructed or file-loaded BatchConfig and from
\* the command line.
WorkersInRangeValidated ==
  (call.phase = "done" /\ call.dispatched
     /\ call.entry \in {"BatchConfig", "cli --urls-file", "cli --sources-file"}) =>
    (call.max_workers[1] >= 1 /\ call.max_workers[1] <= 10)

\* C29: in a finished run every successfully processed source has an output file
\* of its own: output_files has one entry per successful source and no two
\* entries name the same file.
C29_OwnOutputFile ==
  engine.phase = "DONE" =>
    /\ Cardinality(DOMAIN engine.output_files) = Cardinality(SucceededSources)
    /\ \A p, q \in DOMAIN engine.output_files :
         engine.output_files[p] = engine.output_files[q] => p = q

\* The same for runs whose sources have pairwise distinct stems.
OwnOutputFileDistinctStems ==
  (\A j, k \in DOMAIN engine.config.sources : PathOf(j)[2] = PathOf(k)[2] => j = k)
    => C29_OwnOutputFile

\* C23: with min_text_length = n > 0 no item of the output has a text shorter
\* than n, for every output format, with and without chunking.
C23_NoShortText ==
  (call.phase = "done" /\ call.min_text_length > 0) =>
    \A i \in DOMAIN call.output : call.output[i] >= call.min_text_length

\* The same for loads without a chunking strategy.
NoShortTextUnchunked == call.max_chunk_size = None => C23_NoShortText

\* The same for the documents format.
NoShortTextDocuments == call.output_format = "documents" => C23_NoShortText

\* The base config of a command line: the --config file, else the named preset,
\* else the default preset.
BaseConfig(argv) ==
  IF argv.config # None THEN argv.config[1]
  ELSE IF argv.preset # None THEN Presets[argv.preset[1]]
  ELSE Presets.default

\* The base config with the value of every flag that was typed.
Overridden(argv) ==
  [output_format |-> IF argv.format # None THEN argv.format[1]
                     ELSE BaseConfig(argv).output_format,
   min_text_length |-> IF argv.min_length # None THEN argv.min_length[1]
                       ELSE BaseConfig(argv).min_text_length,
   include_metadata |-> IF argv.no_metadata THEN FALSE
                        ELSE IF argv.include_metadata THEN TRUE
                        ELSE BaseConfig(argv).include_metadata]

\* C22: the effective config is the base config with exactly the fields whose
\* flag was typed replaced by the flag's value (command lines with both
\* --include-metadata and --no-metadata aside).
C22_ExplicitOverrides ==
  (call.phase = "done" /\ ~(call.argv.include_metadata /\ call.argv.no_metadata)) =>
    call.config = Some(Overridden(call.argv))

\* The same for command lines that type --format, no --include-metadata and no
\* number 0.
ExplicitOverridesTypedFormat ==
  (/\ call.phase = "done"
   /\ call.argv.format # None
   /\ ~call.argv.include_metadata
   /\ call.argv.min_length # Some(0)) =>
    call.config = Some(Overridden(call.argv))

\* What holds of the client at every moment of a submit-and-wait cycle.
ClientProtocol ==
  /\ "download" \in client.sent => client.observed = Some("completed")
  /\ "delete" \in client.sent => client.downloaded
  /\ client.downloaded => "download" \in client.sent
  /\ client.observed = Some("failed") =>
       /\ client.outcome = Some("JobFailed")
       /\ "download" \notin client.sent
  /\ client.outcome = Some("TimeoutError") =>
       /\ client.clock >= DefaultTimeout
       /\ client.observed \in {Some("pending"), Some("processing")}
       /\ "download" \notin client.sent
  /\ client.outcome = Some("result") =>
       client.observed = Some("completed") /\ client.downloaded
  /\ client.phase = "ended" <=> client.outcome # None
  /\ (client.phase = "loop" /\ client.clock >= DefaultTimeout) =>
       client.observed \in {Some("pending"), Some("processing")}

\* C21: the cycle follows the protocol (download only after completed was
\* observed, delete only after the download succeeded, an error and no download
\* after failed, a timeout error only once the timeout has elapsed with the job
\* last seen pending or processing, a result only for a job seen completed) and
\* it always ends.
C21_SubmitAndWait ==
  /\ [](client.phase # "idle" => ClientProtocol)
  /\ <>(client.phase = "ended")

C21_Witness ==
  /\ client.outcome = Some("result")
  /\ client.sent = {"status", "download", "delete"}
  /\ client.clock > PollSeconds

\* A cycle can end in each of the ways the client knows.
ClientTimesOut == client.outcome = Some("TimeoutError")
ClientSeesFailure == client.outcome = Some("JobFailed")
====
